---- MODULE Spec2Model ----
(***************************************************************************)
(* State-machine model of sgs-communication's outbound e-mail path:        *)
(* SGSCommunication.init / with, EmailInterface.with / send /              *)
(* assembleEmail, EmailTemplates.render / localize and EmailSender         *)
(* (constructor and send).                                                 *)
(*                                                                         *)
(* The record `call` holds the closure variables of the send /             *)
(* assembleEmail invocation whose completions the event loop runs, and     *)
(* every asynchronous completion (template load, per-item render, readdir, *)
(* async.auto's dependent task, transport completion) is one action.       *)
(* `other` holds the closure variables of a second invocation in flight.   *)
(***************************************************************************)
EXTENDS Integers, Sequences, FiniteSets, TLC

VARIABLES
    options,     \* the `sender` options EmailSender was constructed with
    sender,      \* the EmailSender object: transports (with their plugins), compiler
    transport,   \* EmailInterface's this.transport
    call,        \* closure state of the current send / assembleEmail call
    ncalls,      \* number of send calls issued so far
    sinceWith,   \* number of send calls issued since the last with()
    other,       \* closure state of a second send call in flight at the same time
    facade,      \* the SGSCommunication object: its protocols and what with() last returned
    inbound      \* the EmailReceiver: its SMTP connections and the consumers stream() created

vars == <<options, sender, transport, call, ncalls, sinceWith, other, facade, inbound>>

\* ---------------------------------------------------------------- bounds
MaxItems == 2
MaxCalls == 2
\* SMTP connections open at the same time
MaxConnections == 2
\* inbound messages, over all connections
MaxMessages == 2
\* data chunks of one message
MaxChunks == 2

\* ------------------------------------------------------- JavaScript values
Null == "null"
Undefined == "undefined"

\* the key `accumulator[undefined]` used when templates.uid is absent
UndefinedKey == 0 - 1

EmptyObj == [f \in {} |-> Undefined]

\* _.extend(obj, source): copy every property of source onto obj
Extend(obj, source) ==
    [f \in (DOMAIN obj) \cup (DOMAIN source) |->
        IF f \in DOMAIN source THEN source[f] ELSE obj[f]]

\* the JavaScript truthiness of obj[f]
IsTruthy(v) == v.dir # Undefined
HasTruthy(obj, f) == f \in DOMAIN obj /\ IsTruthy(obj[f])

\* _.union(a, b): a NEW array with the unique items of a then b, in order
RECURSIVE Uniq(_, _)
Uniq(s, seen) ==
    IF s = <<>> THEN <<>>
    ELSE IF Head(s) \in seen THEN Uniq(Tail(s), seen)
         ELSE <<Head(s)>> \o Uniq(Tail(s), seen \cup {Head(s)})
Union(a, b) == Uniq(a \o b, {})

Range(s) == {s[k] : k \in DOMAIN s}

\* String.prototype.toLowerCase on the transport names in use
ToLowerCase(s) ==
    CASE s = "Stub" -> "stub"
      [] OTHER -> s

\* ------------------------------------------------------ inputs in use
\* names a caller passes to with()
WithNames == {"Stub", "*", "nonexistent"}

\* `sender` options: the test suite's, the same without the html-to-text
\* compiler, and an empty one on a linux host
SenderOptions == {
    [stub |-> TRUE,  direct |-> FALSE, ses |-> FALSE,
     defaultTransport |-> "stub", compiler |-> "unset", linux |-> TRUE],
    [stub |-> TRUE,  direct |-> FALSE, ses |-> FALSE,
     defaultTransport |-> "stub", compiler |-> "false", linux |-> TRUE],
    [stub |-> FALSE, direct |-> FALSE, ses |-> FALSE,
     defaultTransport |-> Undefined, compiler |-> "unset", linux |-> TRUE] }

\* what fs.readdir may list under <templatesDir>/attachments/<type>
DirListings == { <<".hidden", "logo.png">> }

\* what a transport's sendMail may hand to its callback (e, info):
\* `arrays` names the properties of info that are arrays
InfoOf(acc, rej, pen, arrs) ==
    [isObject |-> TRUE, accepted |-> acc, rejected |-> rej, pending |-> pen,
     arrays |-> arrs]
NoInfo == [isObject |-> FALSE, accepted |-> <<>>, rejected |-> <<>>,
           pending |-> <<>>, arrays |-> {}]
NoErr == [isError |-> FALSE, errorsIsArray |-> FALSE, errors |-> <<>>]
StructuredErr(recipients) ==
    [isError |-> TRUE, errorsIsArray |-> TRUE,
     errors |-> <<[recipients |-> recipients]>>]
NoOutcome == [e |-> NoErr, info |-> NoInfo]

Outcomes == {
    [e |-> NoErr, info |-> InfoOf(<<"a@x.com">>, <<"b@x.com">>, <<>>, {"accepted", "rejected"})],
    [e |-> NoErr, info |-> InfoOf(<<"c@x.com">>, <<>>, <<>>, {"accepted"})],
    [e |-> StructuredErr(<<"e@x.com">>), info |-> NoInfo] }

\* a JavaScript array held as a property value
ArrayValue(list) == [dir |-> "array", item |-> UndefinedKey, arg |-> 0, list |-> list]

\* the string 'X' a caller passes as settings.ref
RefValue == [dir |-> "X", item |-> UndefinedKey, arg |-> 0]

\* an attachment descriptor as attachmentsList builds it and as a caller
\* writes it in settings.attachments
Descriptor(filename, path, cid) == [filename |-> filename, path |-> path, cid |-> cid]

\* properties a caller may set on `settings` besides subject: a ref, or a
\* ref and an attachments array naming a hidden and a visible file
SettingsExtras == {
    [f \in {"ref"} |-> RefValue],
    [f \in {"ref", "attachments"} |->
        IF f = "ref" THEN RefValue
        ELSE ArrayValue(<<Descriptor(".secret", "/tmp/.secret", ".secret"),
                          Descriptor("doc.pdf", "/tmp/doc.pdf", "doc.pdf")>>)] }

\* the error the template engine reports for one item's rendering
RenderError == "render-error"

ContentLoadError == "content-load-error"
SubjectLoadError == "subject-load-error"
ReaddirError == "readdir-error"

\* ------------------------------------------------------------ EmailSender
\* the default transport name the constructor computes (a local variable)
DefaultTransportOf(o) ==
    IF o.defaultTransport # Undefined THEN o.defaultTransport
    ELSE IF o.linux THEN "sendmail" ELSE "direct"

\* new EmailSender(options); every backend starts with no plugin
EmailSender(o) ==
    LET names == (IF o.direct THEN {"direct"} ELSE {})
                 \cup (IF o.stub THEN {"stub"} ELSE {})
                 \cup (IF o.ses THEN {"ses"} ELSE {})
                 \cup (IF DefaultTransportOf(o) = "sendmail"
                       THEN {"sendmail"} ELSE {"direct"})
    IN  [transports |-> [k \in names |-> 0],
         compiler |-> IF o.compiler \in {"true", "false"}
                      THEN o.compiler = "true" ELSE TRUE]

\* a property read: undefined when the object has no such property
Prop(obj, f) == IF f \in DOMAIN obj THEN obj[f] ELSE Undefined

\* EmailSender.prototype.send; `threw` is a TypeError raised on the way,
\* `via` the backend whose sendMail received the envelope
SenderSend(snd, transportMethod) ==
    IF transportMethod \in {Null, Undefined}
    THEN [sender |-> snd, threw |-> TRUE, via |-> Undefined]
    ELSE
    LET key == ToLowerCase(transportMethod)
        found == key \in DOMAIN snd.transports
    IN  IF snd.compiler /\ ~found
        THEN [sender |-> snd, threw |-> TRUE, via |-> Undefined]
        ELSE
        LET snd1 == IF snd.compiler
                    THEN [snd EXCEPT !.transports[key] = @ + 1]
                    ELSE snd
        IN  IF ~found \/ transportMethod = "*"
            THEN LET tm == Prop(snd1, "defaultTransport")
                 IN  IF tm \in DOMAIN snd1.transports
                     THEN [sender |-> snd1, threw |-> FALSE, via |-> tm]
                     ELSE [sender |-> snd1, threw |-> TRUE, via |-> Undefined]
            ELSE [sender |-> snd1, threw |-> FALSE, via |-> key]

\* --------------------------------------------------------- the send call
IdleCall ==
    [active |-> FALSE, n |-> 0, subjectLit |-> FALSE, transport |-> Null,
     callbackCount |-> 0, settings |-> EmptyObj,
     content |-> "idle", contentPending |-> {},
     subject |-> "idle", subjectPending |-> {},
     attach |-> "idle", attachmentsFiles |-> <<>>,
     attachments |-> [isFalse |-> TRUE, list |-> <<>>],
     accumulator |-> EmptyObj,
     autoLive |-> FALSE, remainingTasks |-> 0, immediates |-> 0,
     sends |-> EmptyObj, failed |-> EmptyObj, succeeded |-> EmptyObj,
     emissions |-> EmptyObj,
     cbCalls |-> <<>>]

Uids(cs) == 0 .. (cs.n - 1)

LiteralSubject == [dir |-> "literal", item |-> UndefinedKey, arg |-> 0]
Rendered(d, i, a) == [dir |-> d, item |-> i, arg |-> a]

\* the closure reading this.transport when an envelope arrives instead
\* of the variable captured when send was invoked
DispatchReadingThisTransport(w, uid, emailContents) ==
    LET cs == w.call
        settings1 == Extend(cs.settings, emailContents)
        r == SenderSend(w.sender, transport)
        put(f, v) == [k \in (DOMAIN f) \cup {uid} |-> IF k = uid THEN v ELSE f[k]]
    IN  [sender |-> r.sender,
         call |-> [cs EXCEPT
            !.settings = settings1,
            !.failed = put(@, <<>>),
            !.succeeded = put(@, <<>>),
            !.emissions = put(@, IF uid \in DOMAIN @ THEN @[uid] + 1 ELSE 1),
            !.sends = put(@, [status |-> IF r.threw THEN "threw" ELSE "inflight",
                              method |-> transport,
                              via |-> r.via, envelope |-> settings1,
                              contents |-> emailContents,
                              outcome |-> NoOutcome])]]

\* the closure send() passes to assembleEmail, on the success path
\* (EmailInterface.js 297-302): extend the caller's settings, start fresh
\* failed / succeeded arrays for this envelope and hand it to the sender
Dispatch(w, uid, emailContents) ==
    LET cs == w.call
        settings1 == Extend(cs.settings, emailContents)
        r == SenderSend(w.sender, cs.transport)
        put(f, v) == [k \in (DOMAIN f) \cup {uid} |-> IF k = uid THEN v ELSE f[k]]
    IN  [sender |-> r.sender,
         call |-> [cs EXCEPT
            !.settings = settings1,
            !.failed = put(@, <<>>),
            !.succeeded = put(@, <<>>),
            !.emissions = put(@, IF uid \in DOMAIN @ THEN @[uid] + 1 ELSE 1),
            !.sends = put(@, [status |-> IF r.threw THEN "threw" ELSE "inflight",
                              method |-> cs.transport,
                              via |-> r.via, envelope |-> settings1,
                              contents |-> emailContents,
                              outcome |-> NoOutcome])]]

\* accumulate without the test of `attachments`: an entry is emitted as
\* soon as its html and its subject are there
AccumulateIgnoringAttachments(w, uid, fields) ==
    LET acc == w.call.accumulator
        instance == Extend(IF uid \in DOMAIN acc THEN acc[uid] ELSE EmptyObj, fields)
    IN  IF /\ HasTruthy(instance, "html")
           /\ HasTruthy(instance, "subject")
        THEN Dispatch([w EXCEPT !.call.accumulator =
                          [k \in (DOMAIN acc) \ {uid} |-> acc[k]]],
                      uid, instance)
        ELSE [w EXCEPT !.call.accumulator =
                 [k \in (DOMAIN acc) \cup {uid} |->
                     IF k = uid THEN instance ELSE acc[k]]]

\* assembleEmail's accumulate(templates), templates = {uid: uid} + fields
Accumulate(w, uid, fields) ==
    LET acc == w.call.accumulator
        instance == Extend(IF uid \in DOMAIN acc THEN acc[uid] ELSE EmptyObj, fields)
    IN  IF /\ HasTruthy(instance, "html")
           /\ HasTruthy(instance, "subject")
           /\ ~w.call.attachments.isFalse
        THEN Dispatch([w EXCEPT !.call.accumulator =
                          [k \in (DOMAIN acc) \ {uid} |-> acc[k]]],
                      uid, instance)
        ELSE [w EXCEPT !.call.accumulator =
                 [k \in (DOMAIN acc) \cup {uid} |->
                     IF k = uid THEN instance ELSE acc[k]]]

\* a task of async.auto calls its callback with an error: async.auto
\* hands the error to its final callback, unless it has replaced that
\* callback by a no-op (after an earlier error or after completion); the
\* final callback forwards the error to send's closure, which hands it
\* to the caller's callback
AutoError(cs, e) ==
    IF ~cs.autoLive THEN cs
    ELSE [cs EXCEPT !.autoLive = FALSE,
                    !.cbCalls = Append(@, [err |-> e, failed |-> <<>>, succeeded |-> <<>>])]

\* a task of async.auto calls its callback without an error: async.auto
\* (before 2.0, the versions with the (cb, results) task signature used
\* here) schedules one taskComplete with setImmediate, once per call of
\* the task callback
TaskCallback(cs) == [cs EXCEPT !.immediates = @ + 1]

RECURSIVE Recipients(_)
Recipients(errors) ==
    IF errors = <<>> THEN <<>>
    ELSE <<Head(errors).recipients>> \o Recipients(Tail(errors))

\* the completion callback without its test of the countdown: it calls
\* back on every completion that carries an info object
SendMailCallbackEveryTime(cs, uid, e, info) ==
    LET c1 == [cs EXCEPT !.callbackCount = @ - 1]
    IN  IF ~info.isObject THEN c1
        ELSE [c1 EXCEPT !.cbCalls =
                 Append(@, [err |-> Null, failed |-> cs.failed[uid],
                            succeeded |-> cs.succeeded[uid]])]

\* the callback send() gives to sender.send (EmailInterface.js 302-340).
\* _.union returns a new array and the code drops it: failed and
\* succeeded are never assigned after their creation
SendMailCallback(cs, uid, e, info) ==
    LET c1 == [cs EXCEPT !.callbackCount = @ - 1]
        droppedFailed1 == IF e.isError /\ e.errorsIsArray
                          THEN Union(cs.failed[uid], Recipients(e.errors))
                          ELSE <<>>
        droppedSucceeded == IF "accepted" \in info.arrays
                            THEN Union(cs.succeeded[uid], info.accepted)
                            ELSE <<>>
        droppedFailed2 == IF "rejected" \in info.arrays
                          THEN Union(cs.failed[uid], info.rejected)
                          ELSE <<>>
        droppedFailed3 == IF "pending" \in info.arrays
                          THEN Union(cs.failed[uid], info.pending)
                          ELSE <<>>
    IN  IF ~info.isObject THEN c1
        ELSE IF c1.callbackCount = 0
             THEN [c1 EXCEPT !.cbCalls =
                      Append(@, [err |-> Null, failed |-> cs.failed[uid],
                                 succeeded |-> cs.succeeded[uid]])]
             ELSE c1

\* the number of tasks assembleEmail gives async.auto: renderedEmail,
\* renderedSubject, attachmentsFiles, attachmentsList
AutoTasks == 4

\* the state send() and assembleEmail() set up before their first
\* asynchronous completion: countdown, captured transport, the three
\* async.auto tasks started; a literal subject is accumulated at once
\* (under the key undefined) and its task never calls back
NewCall(n, lit, tr) ==
    [IdleCall EXCEPT
        !.active = TRUE, !.n = n, !.subjectLit = lit, !.transport = tr,
        !.callbackCount = n,
        !.settings = IF lit THEN [f \in {"subject"} |-> LiteralSubject] ELSE EmptyObj,
        !.content = "loading",
        !.subject = IF lit THEN "literal" ELSE "loading",
        !.attach = "reading",
        !.autoLive = TRUE, !.remainingTasks = AutoTasks]

StartCall(snd, n, lit, tr) ==
    LET w0 == [sender |-> snd, call |-> NewCall(n, lit, tr)]
    IN  IF lit
        THEN Accumulate(w0, UndefinedKey, [f \in {"subject"} |-> LiteralSubject])
        ELSE w0

\* no completion of the call is outstanding any more
Quiescent(cs) ==
    /\ cs.content # "loading" /\ cs.contentPending = {}
    /\ cs.subject # "loading" /\ cs.subjectPending = {}
    /\ cs.attach # "reading"
    /\ cs.immediates = 0
    /\ \A u \in DOMAIN cs.sends : cs.sends[u].status # "inflight"

\* ---------------------------------------------------------- EmailReceiver
Connections == 1 .. MaxConnections

\* what getEmailQueueId may return
QueueIds == {"q1", "q2"}

\* connection.saveStream before any startData handler has assigned it
NoStream == 0

\* a connection of the SMTP server: the message it is transferring, the
\* chunks the server has emitted for it, connection.saveStream (an index
\* into the consumers), the calls of the server's completion callback
IdleConnection ==
    [phase |-> "idle", msg |-> 0, nchunks |-> 0, saveStream |-> NoStream,
     threw |-> FALSE, callbacks |-> <<>>]

\* new EmailReceiver(options): the server listens, no handler is registered
NewReceiver ==
    [registered |-> FALSE, emailQueueId |-> Undefined, nmessages |-> 0,
     consumers |-> <<>>,
     conns |-> [c \in Connections |-> IdleConnection]]

\* what stream() returns: a consumer nothing was written to
NewConsumer(c, m) == [conn |-> c, msg |-> m, chunks |-> <<>>, ends |-> 0]

\* ------------------------------------------------------ SGSCommunication
\* no with() call has returned yet
NoWith == [protocol |-> "none", transport |-> Null, result |-> "none"]

\* the module's exported object before init(): no `protocols` property
NewFacade == [initialised |-> FALSE, protocols |-> {}, last |-> NoWith]

\* the object after init({email: {...}}): protocols = {email: EmailInterface}
EmailFacade == [initialised |-> TRUE, protocols |-> {"email"}, last |-> NoWith]

\* no EmailSender exists before init() constructs the EmailInterface
NoSender == [transports |-> [k \in {} |-> 0], compiler |-> FALSE]

\* ---------------------------------------------------------------- actions
Init ==
    /\ options \in SenderOptions
    /\ sender = EmailSender(options)
    /\ transport = Null
    /\ call = IdleCall
    /\ ncalls = 0
    /\ sinceWith = 0
    /\ other = IdleCall
    /\ facade = EmailFacade
    /\ inbound = NewReceiver

\* EmailInterface.prototype.with
With(t) ==
    /\ transport' = t
    /\ sinceWith' = 0
    /\ UNCHANGED <<options, inbound, facade, other, sender, call, ncalls>>

\* EmailInterface.prototype.send with n data items
Send(n, lit) ==
    /\ ncalls < MaxCalls
    /\ Quiescent(call)
    /\ LET w == StartCall(sender, n, lit, transport)
       IN  call' = w.call /\ sender' = w.sender
    /\ ncalls' = ncalls + 1
    /\ sinceWith' = sinceWith + 1
    /\ UNCHANGED <<options, inbound, facade, other, transport>>

\* templating.render of the content directory fails to load the template
ContentLoadFail ==
    /\ call.content = "loading"
    /\ call' = AutoError([call EXCEPT !.content = "failed"], ContentLoadError)
    /\ UNCHANGED <<options, inbound, facade, other, sender, transport, ncalls, sinceWith>>

\* the content template is loaded: localize starts one batch per item
ContentLoaded ==
    /\ call.content = "loading"
    /\ call' = [call EXCEPT !.content = "loaded", !.contentPending = Uids(call)]
    /\ UNCHANGED <<options, inbound, facade, other, sender, transport, ncalls, sinceWith>>

\* sender.send raised an exception for envelope uid: it propagates out of
\* accumulate and of the render callback, whose cb() is then not reached
Threw(cs, uid) == uid \in DOMAIN cs.sends /\ cs.sends[uid].status = "threw"

\* the per-item render with the uid kept in one variable shared by all
\* Render objects instead of one per closure: every rendering is handed
\* back under the uid of the last item
ContentRenderedLastUid(uid) ==
    /\ uid \in call.contentPending
    /\ LET w == Accumulate(
                  [sender |-> sender,
                   call |-> [call EXCEPT !.contentPending = @ \ {uid}]],
                  call.n - 1,
                  [f \in {"html", "text"} |->
                      IF f = "html" THEN Rendered("content", uid, 3)
                      ELSE Rendered("content", uid, 2)])
       IN  /\ call' = IF Threw(w.call, call.n - 1) THEN w.call ELSE TaskCallback(w.call)
           /\ sender' = w.sender
    /\ UNCHANGED <<options, inbound, facade, other, transport, ncalls, sinceWith>>

\* the engine hands item uid's rendering to Render.send(e, text, html),
\* which calls back {uid, html, text}; renderedEmail accumulates it and
\* calls the task callback cb(), once per item
ContentRendered(uid) ==
    /\ uid \in call.contentPending
    /\ LET w == Accumulate(
                  [sender |-> sender,
                   call |-> [call EXCEPT !.contentPending = @ \ {uid}]],
                  uid,
                  [f \in {"html", "text"} |->
                      IF f = "html" THEN Rendered("content", uid, 3)
                      ELSE Rendered("content", uid, 2)])
       IN  /\ call' = IF Threw(w.call, uid) THEN w.call ELSE TaskCallback(w.call)
           /\ sender' = w.sender
    /\ UNCHANGED <<options, inbound, facade, other, transport, ncalls, sinceWith>>

SubjectLoadFail ==
    /\ call.subject = "loading"
    /\ call' = AutoError([call EXCEPT !.subject = "failed"], SubjectLoadError)
    /\ UNCHANGED <<options, inbound, facade, other, sender, transport, ncalls, sinceWith>>

SubjectLoaded ==
    /\ call.subject = "loading"
    /\ call' = [call EXCEPT !.subject = "loaded", !.subjectPending = Uids(call)]
    /\ UNCHANGED <<options, inbound, facade, other, sender, transport, ncalls, sinceWith>>

\* renderedSubject accumulates {uid, subject: templates.html} and calls
\* the task callback cb(), once per item
SubjectRendered(uid) ==
    /\ uid \in call.subjectPending
    /\ LET w == Accumulate(
                  [sender |-> sender,
                   call |-> [call EXCEPT !.subjectPending = @ \ {uid}]],
                  uid,
                  [f \in {"subject"} |-> Rendered("subject", uid, 3)])
       IN  /\ call' = IF Threw(w.call, uid) THEN w.call ELSE TaskCallback(w.call)
           /\ sender' = w.sender
    /\ UNCHANGED <<options, inbound, facade, other, transport, ncalls, sinceWith>>

\* the value attachmentsList assigns to `attachments`: one descriptor per
\* listed file, its path and cid being the bare file name
AttachmentsListOf(files) ==
    [isFalse |-> FALSE,
     list |-> [k \in DOMAIN files |->
                 [filename |-> files[k], path |-> files[k], cid |-> files[k]]]]

\* fs.readdir of the attachments directory fails
AttachmentsFilesFail ==
    /\ call.attach = "reading"
    /\ call' = AutoError([call EXCEPT !.attach = "failed"], ReaddirError)
    /\ UNCHANGED <<options, inbound, facade, other, sender, transport, ncalls, sinceWith>>

\* fs.readdir succeeds and calls the task callback with the listing
AttachmentsFilesDone(files) ==
    /\ call.attach = "reading"
    /\ call' = TaskCallback([call EXCEPT !.attach = "read",
                                         !.attachmentsFiles = files])
    /\ UNCHANGED <<options, inbound, facade, other, sender, transport, ncalls, sinceWith>>

\* one scheduled taskComplete of async.auto runs: it counts one task as
\* finished, starts attachmentsList if attachmentsFiles has its result
\* (the task assigns `attachments` and calls back at once), and when the
\* count is at zero calls the final callback without an error (which
\* does nothing here) and replaces it by a no-op
AutoTaskComplete ==
    /\ call.immediates > 0
    /\ LET c1 == [call EXCEPT !.immediates = @ - 1, !.remainingTasks = @ - 1]
           c2 == IF c1.attach = "read"
                 THEN TaskCallback([c1 EXCEPT !.attach = "listed",
                         !.attachments = AttachmentsListOf(c1.attachmentsFiles)])
                 ELSE c1
       IN  call' = IF c2.remainingTasks = 0
                   THEN [c2 EXCEPT !.autoLive = FALSE]
                   ELSE c2
    /\ UNCHANGED <<options, inbound, facade, other, sender, transport, ncalls, sinceWith>>

\* the completion with the countdown kept on the EmailInterface object
\* instead of in send's closure: a completion of one call also counts
\* down the other call in flight
SendMailDoneSharedCountdown(uid, o) ==
    /\ uid \in DOMAIN call.sends
    /\ call.sends[uid].status = "inflight"
    /\ call' = SendMailCallback(
                  [call EXCEPT !.sends[uid].status = "done",
                               !.sends[uid].outcome = o],
                  uid, o.e, o.info)
    /\ other' = IF other.active THEN [other EXCEPT !.callbackCount = @ - 1] ELSE other
    /\ UNCHANGED <<options, inbound, facade, sender, transport, ncalls, sinceWith>>

\* the transport completes the sendMail of envelope uid with (e, info)
SendMailDone(uid, o) ==
    /\ uid \in DOMAIN call.sends
    /\ call.sends[uid].status = "inflight"
    /\ call' = SendMailCallback(
                  [call EXCEPT !.sends[uid].status = "done",
                               !.sends[uid].outcome = o],
                  uid, o.e, o.info)
    /\ UNCHANGED <<options, inbound, facade, other, sender, transport, ncalls, sinceWith>>

Next ==
    \/ \E t \in WithNames : With(t)
    \/ \E n \in 0 .. MaxItems, lit \in BOOLEAN : Send(n, lit)
    \/ ContentLoadFail
    \/ ContentLoaded
    \/ \E uid \in 0 .. MaxItems - 1 : ContentRendered(uid)
    \/ SubjectLoadFail
    \/ SubjectLoaded
    \/ \E uid \in 0 .. MaxItems - 1 : SubjectRendered(uid)
    \/ AttachmentsFilesFail
    \/ \E files \in DirListings : AttachmentsFilesDone(files)
    \/ AutoTaskComplete
    \/ \E uid \in 0 .. MaxItems - 1, o \in Outcomes : SendMailDone(uid, o)

Spec == Init /\ [][Next]_vars


\* EmailInterface.prototype.send with n data items and a settings object
\* that carries the properties `extra` besides its subject
SendSettings(n, lit, extra) ==
    /\ ncalls < MaxCalls
    /\ Quiescent(call)
    /\ LET w == StartCall(sender, n, lit, transport)
       IN  /\ call' = [w.call EXCEPT !.settings = Extend(extra, @)]
           /\ sender' = w.sender
    /\ ncalls' = ncalls + 1
    /\ sinceWith' = sinceWith + 1
    /\ UNCHANGED <<options, inbound, facade, other, transport>>

\* the same program, called with settings that carry a ref and attachments
NextSettings ==
    \/ \E t \in WithNames : With(t)
    \/ \E n \in 0 .. MaxItems, lit \in BOOLEAN, extra \in SettingsExtras :
          SendSettings(n, lit, extra)
    \/ ContentLoadFail
    \/ ContentLoaded
    \/ \E uid \in 0 .. MaxItems - 1 : ContentRendered(uid)
    \/ SubjectLoadFail
    \/ SubjectLoaded
    \/ \E uid \in 0 .. MaxItems - 1 : SubjectRendered(uid)
    \/ AttachmentsFilesFail
    \/ \E files \in DirListings : AttachmentsFilesDone(files)
    \/ AutoTaskComplete
    \/ \E uid \in 0 .. MaxItems - 1, o \in Outcomes : SendMailDone(uid, o)

SpecSettings == Init /\ [][NextSettings]_vars


\* ------------------------------------------- two send calls in flight
\* the program as the test suite constructs it
InitTwo ==
    /\ Init
    /\ options.stub /\ options.compiler = "unset"

\* EmailInterface.prototype.send called while an earlier send call still
\* has completions outstanding: the earlier call keeps its own closure
\* (held in `other` from here on) and the new call gets a fresh one
SendConcurrent(n, lit) ==
    /\ ncalls < MaxCalls
    /\ call.active /\ ~Quiescent(call)
    /\ Quiescent(other)
    /\ other' = call
    /\ LET w == StartCall(sender, n, lit, transport)
       IN  call' = w.call /\ sender' = w.sender
    /\ ncalls' = ncalls + 1
    /\ sinceWith' = sinceWith + 1
    /\ UNCHANGED <<options, inbound, facade, transport>>

\* the event loop turns to a completion of the other call in flight: its
\* closure is the one the next completion handlers run in
Turn ==
    /\ other.active /\ ~Quiescent(other)
    /\ call' = other
    /\ other' = call
    /\ UNCHANGED <<options, inbound, facade, sender, transport, ncalls, sinceWith>>

\* the caller pins the stub transport (or does not), issues one send call
\* of up to MaxItems items with a templated subject and, while that call
\* is in flight, a second send call of one item; templates and the
\* attachments directory are readable
PinStub == ncalls = 0 /\ With("Stub")
SendFirst(n) == ncalls = 0 /\ Send(n, FALSE)
SendSecond == ncalls = 1 /\ SendConcurrent(1, FALSE)

NextTwo ==
    \/ PinStub
    \/ \E n \in 1 .. MaxItems : SendFirst(n)
    \/ SendSecond
    \/ Turn
    \/ ContentLoaded
    \/ \E uid \in 0 .. MaxItems - 1 : ContentRendered(uid)
    \/ SubjectLoaded
    \/ \E uid \in 0 .. MaxItems - 1 : SubjectRendered(uid)
    \/ \E files \in DirListings : AttachmentsFilesDone(files)
    \/ AutoTaskComplete
    \/ \E uid \in 0 .. MaxItems - 1, o \in Outcomes : SendMailDone(uid, o)

SpecTwo == InitTwo /\ [][NextTwo]_vars


\* ------------------------------------------------------- through the facade
\* the protocol names a caller passes to with()
ProtocolNames == {"email", "sms", "constructor"}

\* the module is loaded: init() has not run, no interface exists
InitFacade ==
    /\ options \in SenderOptions
    /\ sender = NoSender
    /\ transport = Null
    /\ call = IdleCall
    /\ ncalls = 0
    /\ sinceWith = 0
    /\ other = IdleCall
    /\ facade = NewFacade
    /\ inbound = NewReceiver

\* SGSCommunication.prototype.init(options): protocols = {}, and with an
\* `email` option protocols.email = new EmailInterface(options.email)
FacadeInit(hasEmail) ==
    /\ ~facade.initialised
    /\ facade' = [facade EXCEPT !.initialised = TRUE,
                                !.protocols = IF hasEmail THEN {"email"} ELSE {}]
    /\ sender' = IF hasEmail THEN EmailSender(options) ELSE sender
    /\ transport' = Null
    /\ UNCHANGED <<options, inbound, call, ncalls, sinceWith, other>>

\* the property names every object inherits from Object.prototype, over
\* the names in use
InheritedNames == {"constructor"}

\* `protocol in this.protocols`: true for an own property and for an
\* inherited one
In(protocol, protocols) == protocol \in protocols \cup InheritedNames

\* SGSCommunication.prototype.with(protocol, transport): when `protocol
\* in this.protocols`, the result of this.protocols[protocol].with(
\* transport), which for the email interface pins the transport and
\* returns the interface and for an inherited property (a function
\* without a `with`) raises a TypeError; otherwise nothing is done and
\* the function returns undefined
FacadeWith(protocol, t) ==
    /\ facade.initialised
    /\ IF protocol \in facade.protocols
       THEN /\ transport' = t
            /\ sinceWith' = 0
            /\ facade' = [facade EXCEPT !.last =
                  [protocol |-> protocol, transport |-> t, result |-> "interface"]]
       ELSE /\ facade' = [facade EXCEPT !.last =
                  [protocol |-> protocol, transport |-> t,
                   result |-> IF In(protocol, facade.protocols)
                              THEN "threw" ELSE Undefined]]
            /\ UNCHANGED <<transport, sinceWith>>
    /\ UNCHANGED <<options, inbound, sender, call, ncalls, other>>

\* facade.with(...).send(settings, item, cb): send is called on what
\* with() returned, an interface
FacadeSend ==
    /\ facade.last.result = "interface"
    /\ Send(1, FALSE)

\* the facade is initialised, with() is called with any protocol and
\* transport (or none), and one-item sends are issued on its result;
\* templates and the attachments directory are readable
NextFacade ==
    \/ \E hasEmail \in BOOLEAN : FacadeInit(hasEmail)
    \/ \E protocol \in ProtocolNames, t \in WithNames \cup {Undefined} :
          FacadeWith(protocol, t)
    \/ FacadeSend
    \/ ContentLoaded
    \/ ContentRendered(0)
    \/ SubjectLoaded
    \/ SubjectRendered(0)
    \/ \E files \in DirListings : AttachmentsFilesDone(files)
    \/ AutoTaskComplete
    \/ \E o \in Outcomes : SendMailDone(0, o)

SpecFacade == InitFacade /\ [][NextFacade]_vars


\* --------------------------------------------- renderings that fail
\* an argument the engine left out of its callback
Missing(i, a) == [dir |-> Undefined, item |-> i, arg |-> a]

\* the engine reports an error for item uid of the content batch: it
\* calls Render.send(e) with no text and no html; Render.send drops e
\* and calls back (null, {uid, html: undefined, text: undefined});
\* renderedEmail accumulates that and calls the task callback cb()
ContentRenderFail(uid) ==
    /\ uid \in call.contentPending
    /\ LET w == Accumulate(
                  [sender |-> sender,
                   call |-> [call EXCEPT !.contentPending = @ \ {uid}]],
                  uid,
                  [f \in {"html", "text"} |->
                      IF f = "html" THEN Missing(uid, 3)
                      ELSE Missing(uid, 2)])
       IN  /\ call' = IF Threw(w.call, uid) THEN w.call ELSE TaskCallback(w.call)
           /\ sender' = w.sender
    /\ UNCHANGED <<options, inbound, facade, other, transport, ncalls, sinceWith>>

\* the same for item uid of the subject batch: renderedSubject
\* accumulates {uid, subject: undefined} and calls cb()
SubjectRenderFail(uid) ==
    /\ uid \in call.subjectPending
    /\ LET w == Accumulate(
                  [sender |-> sender,
                   call |-> [call EXCEPT !.subjectPending = @ \ {uid}]],
                  uid,
                  [f \in {"subject"} |-> Missing(uid, 3)])
       IN  /\ call' = IF Threw(w.call, uid) THEN w.call ELSE TaskCallback(w.call)
           /\ sender' = w.sender
    /\ UNCHANGED <<options, inbound, facade, other, transport, ncalls, sinceWith>>

\* the program with a template engine that may fail on single items
NextRender ==
    \/ \E t \in WithNames : With(t)
    \/ \E n \in 0 .. MaxItems, lit \in BOOLEAN : Send(n, lit)
    \/ ContentLoadFail
    \/ ContentLoaded
    \/ \E uid \in 0 .. MaxItems - 1 : ContentRendered(uid)
    \/ \E uid \in 0 .. MaxItems - 1 : ContentRenderFail(uid)
    \/ SubjectLoadFail
    \/ SubjectLoaded
    \/ \E uid \in 0 .. MaxItems - 1 : SubjectRendered(uid)
    \/ \E uid \in 0 .. MaxItems - 1 : SubjectRenderFail(uid)
    \/ AttachmentsFilesFail
    \/ \E files \in DirListings : AttachmentsFilesDone(files)
    \/ AutoTaskComplete
    \/ \E uid \in 0 .. MaxItems - 1, o \in Outcomes : SendMailDone(uid, o)

SpecRender == Init /\ [][NextRender]_vars


\* ------------------------------------------------------ inbound messages
\* EmailReceiver.prototype.receive(stream): one queue id is drawn and the
\* three handlers are registered on the server
Receive(id) ==
    /\ ~inbound.registered
    /\ inbound' = [inbound EXCEPT !.registered = TRUE, !.emailQueueId = id]
    /\ UNCHANGED <<options, sender, transport, call, ncalls, sinceWith, other, facade>>

\* the 'startData' handler with the consumer kept in one variable of the
\* receiver instead of on the connection: every connection sees the
\* consumer created last
StartDataSharedStream(c) ==
    /\ inbound.conns[c].phase = "idle"
    /\ inbound.nmessages < MaxMessages
    /\ LET m == inbound.nmessages + 1
           k == Len(inbound.consumers) + 1
       IN  inbound' =
             IF inbound.registered
             THEN [inbound EXCEPT
                     !.nmessages = m,
                     !.consumers = Append(@, NewConsumer(c, m)),
                     !.conns = [d \in Connections |->
                        IF d = c
                        THEN [@[d] EXCEPT !.phase = "data", !.msg = m, !.nchunks = 0,
                                          !.threw = FALSE, !.saveStream = k]
                        ELSE [@[d] EXCEPT !.saveStream = k]]]
             ELSE [inbound EXCEPT
                     !.nmessages = m,
                     !.conns[c] = [@ EXCEPT !.phase = "data", !.msg = m, !.nchunks = 0,
                                            !.threw = FALSE]]
    /\ UNCHANGED <<options, sender, transport, call, ncalls, sinceWith, other, facade>>

\* the server emits 'startData' for a message on connection c; the
\* handler, if registered, sets connection.saveStream = stream()
StartData(c) ==
    /\ inbound.conns[c].phase = "idle"
    /\ inbound.nmessages < MaxMessages
    /\ LET m == inbound.nmessages + 1
       IN  inbound' =
             IF inbound.registered
             THEN [inbound EXCEPT
                     !.nmessages = m,
                     !.consumers = Append(@, NewConsumer(c, m)),
                     !.conns[c] = [@ EXCEPT !.phase = "data", !.msg = m, !.nchunks = 0,
                                            !.threw = FALSE,
                                            !.saveStream = Len(inbound.consumers) + 1]]
             ELSE [inbound EXCEPT
                     !.nmessages = m,
                     !.conns[c] = [@ EXCEPT !.phase = "data", !.msg = m, !.nchunks = 0,
                                            !.threw = FALSE]]
    /\ UNCHANGED <<options, sender, transport, call, ncalls, sinceWith, other, facade>>

\* the chunk the server emits as number i of message m on connection c
Chunk(c, m, i) == [conn |-> c, msg |-> m, idx |-> i]

\* the server emits 'data' with the next chunk of the message on
\* connection c; the handler, if registered, calls
\* connection.saveStream.write(chunk), a TypeError when the connection
\* has no saveStream
Data(c) ==
    /\ inbound.conns[c].phase = "data"
    /\ inbound.conns[c].nchunks < MaxChunks
    /\ LET cn == inbound.conns[c]
           chunk == Chunk(c, cn.msg, cn.nchunks + 1)
           i1 == [inbound EXCEPT !.conns[c].nchunks = @ + 1]
       IN  inbound' =
             IF ~inbound.registered THEN i1
             ELSE IF cn.saveStream = NoStream
                  THEN [i1 EXCEPT !.conns[c].threw = TRUE]
                  ELSE [i1 EXCEPT !.consumers[cn.saveStream].chunks = Append(@, chunk)]
    /\ UNCHANGED <<options, sender, transport, call, ncalls, sinceWith, other, facade>>

\* the server emits 'dataReady' at the end of the message on connection
\* c; the handler, if registered, calls connection.saveStream.end() and
\* then callback(null, emailQueueId)
DataReady(c) ==
    /\ inbound.conns[c].phase = "data"
    /\ LET cn == inbound.conns[c]
           i1 == [inbound EXCEPT !.conns[c].phase = "idle"]
       IN  inbound' =
             IF ~inbound.registered THEN i1
             ELSE IF cn.saveStream = NoStream
                  THEN [i1 EXCEPT !.conns[c].threw = TRUE]
                  ELSE [i1 EXCEPT
                          !.consumers[cn.saveStream].ends = @ + 1,
                          !.conns[c].callbacks = Append(@,
                             [err |-> Null, id |-> inbound.emailQueueId,
                              msg |-> cn.msg, nchunks |-> cn.nchunks,
                              consumer |-> cn.saveStream,
                              endsBefore |-> inbound.consumers[cn.saveStream].ends + 1])]
    /\ UNCHANGED <<options, sender, transport, call, ncalls, sinceWith, other, facade>>

\* the receiver: receive() is called once, at any moment after the
\* server has started to listen, and connections deliver messages
NextReceive ==
    \/ \E id \in QueueIds : Receive(id)
    \/ \E c \in Connections : StartData(c)
    \/ \E c \in Connections : Data(c)
    \/ \E c \in Connections : DataReady(c)

SpecReceive == Init /\ [][NextReceive]_vars


\* ----------------------------------------------------------------- claims
\* uids whose envelope assembleEmail has emitted to send's closure
Emitted(cs) == DOMAIN cs.sends
\* uids whose transport attempt has completed
Completed(cs) == {u \in DOMAIN cs.sends : cs.sends[u].status = "done"}
\* every one of the N transport attempts was issued and has completed
AllCompleted(cs) == cs.active /\ cs.n >= 1 /\ Completed(cs) = Uids(cs)
\* the invocations of the caller's callback that report success
SuccessCalls(cs) == {k \in DOMAIN cs.cbCalls : cs.cbCalls[k].err = Null}

RECURSIVE SetOfAll(_)
SetOfAll(seqs) ==
    IF seqs = {} THEN {}
    ELSE LET q == CHOOSE x \in seqs : TRUE
         IN  Range(q) \cup SetOfAll(seqs \ {q})

\* C1: once each of the N >= 1 transport attempts of a send call has
\* completed (with an info object, or with an error and no info), the
\* caller's callback has been invoked; a completion handler is the only
\* place that invokes it, so nothing invokes it later.
C1_CallbackAfterAllAttempts ==
    AllCompleted(call) => Len(call.cbCalls) >= 1

\* C2: the caller's callback is invoked at most once, and never with a
\* success result while one of the N transport attempts is outstanding.
C2_AtMostOnceNoEarlyReturn ==
    /\ Len(call.cbCalls) <= 1
    /\ SuccessCalls(call) # {} => Completed(call) = Uids(call)

\* C2 witness: a two-item send called back with success.
C2_Witness ==
    /\ call.n = 2
    /\ Len(call.cbCalls) = 1
    /\ call.cbCalls[1].err = Null
    /\ Completed(call) = {0, 1}

\* C3: the succeeded list of the success callback holds the accepted
\* addresses of all N infos, and the failed list their rejected and
\* pending addresses.
C3_Aggregation ==
    \A k \in SuccessCalls(call) :
        /\ Range(call.cbCalls[k].succeeded) =
              SetOfAll({call.sends[u].outcome.info.accepted : u \in Completed(call)})
        /\ Range(call.cbCalls[k].failed) =
              SetOfAll({call.sends[u].outcome.info.rejected : u \in Completed(call)})
              \cup SetOfAll({call.sends[u].outcome.info.pending : u \in Completed(call)})

\* C4: when an item's send completed with a structured error and the
\* caller's callback is invoked after all N attempts, its error argument
\* is null and the error's recipients are in its failed list.
C4_StructuredErrorInFailed ==
    \A u \in Completed(call) : \A k \in DOMAIN call.cbCalls :
        (AllCompleted(call) /\ call.sends[u].outcome.e.errorsIsArray) =>
            /\ call.cbCalls[k].err = Null
            /\ SetOfAll(Range(Recipients(call.sends[u].outcome.e.errors)))
                  \subseteq Range(call.cbCalls[k].failed)

\* the envelope fields assembly owes item uid (templated subject)
ExpectedContents(uid) ==
    [f \in {"html", "text", "subject"} |->
        CASE f = "html" -> Rendered("content", uid, 3)
          [] f = "text" -> Rendered("content", uid, 2)
          [] OTHER -> Rendered("subject", uid, 3)]

\* content render, subject render and attachment discovery have all
\* completed, for every item
AssemblyOpsDone(cs) ==
    /\ cs.active /\ cs.n >= 1
    /\ cs.content = "loaded" /\ cs.contentPending = {}
    /\ cs.subject = "loaded" /\ cs.subjectPending = {}
    /\ cs.attach = "listed"
    /\ cs.immediates = 0

\* C5: with a templated subject, whatever the order in which content
\* render, subject render and attachment discovery completed, once all
\* three have completed every item's envelope has been emitted, with the
\* contents the order content, subject, attachments is to give.
C5_OrderIndependentAssembly ==
    AssemblyOpsDone(call) =>
        \A u \in Uids(call) :
            /\ u \in Emitted(call)
            /\ call.sends[u].envelope = ExpectedContents(u)

\* C6: with a literal subject the subject template is never rendered,
\* and the content of an item arriving when the attachments are resolved
\* emits that item's envelope with the literal as its subject; with a
\* templated subject an emitted envelope carries the item's rendered one.
C6_LiteralSubject ==
    [][ /\ call'.subjectLit => call'.subject \notin {"loading", "loaded"}
        /\ \A u \in 0 .. MaxItems - 1 :
              /\ ( /\ call.subjectLit
                   /\ ~call.attachments.isFalse
                   /\ u \in call.contentPending
                   /\ u \notin call'.contentPending )
                 => ( /\ u \in Emitted(call')
                      /\ call'.sends[u].envelope["subject"] = LiteralSubject )
              /\ ( u \in Emitted(call') /\ ~call'.subjectLit )
                 => call'.sends[u].envelope["subject"] = Rendered("subject", u, 3)
      ]_vars

\* the errors of the assembly operations that have failed
FailedErrors(cs) ==
    (IF cs.content = "failed" THEN {ContentLoadError} ELSE {})
    \cup (IF cs.subject = "failed" THEN {SubjectLoadError} ELSE {})
    \cup (IF cs.attach = "failed" THEN {ReaddirError} ELSE {})

\* C7: once the content template load, the subject template load or the
\* attachment listing has failed, the caller's callback has been invoked
\* exactly once, with the error of a failed operation (the first one when
\* several fail), and no envelope of the call has been handed to the
\* sender, before or after.
C7_AssemblyFailFast ==
    FailedErrors(call) # {} =>
        /\ Len(call.cbCalls) = 1
        /\ call.cbCalls[1].err \in FailedErrors(call)
        /\ Emitted(call) = {}

\* the name has no backend in the sender
Unconfigured(name) ==
    /\ name \in WithNames
    /\ name # "*"
    /\ ToLowerCase(name) \notin DOMAIN sender.transports

\* C8: a send pinned to a name without a backend hands every envelope to
\* the sendMail of the configured default transport, without throwing.
C8_UnconfiguredFallsBack ==
    Unconfigured(call.transport) =>
        \A u \in Emitted(call) :
            /\ call.sends[u].status # "threw"
            /\ call.sends[u].via = DefaultTransportOf(options)

\* C9: a send pinned to '*' hands every envelope to the sendMail of the
\* configured default transport.
C9_WildcardIsDefault ==
    call.transport = "*" =>
        \A u \in Emitted(call) :
            /\ call.sends[u].status # "threw"
            /\ call.sends[u].via = DefaultTransportOf(options)

\* C10: the send that follows with(t) dispatches through t, and a send
\* issued after it without another with() is no longer pinned to a name.
C10_PinLastsOneSend ==
    /\ ( /\ call.active /\ sinceWith = 1
         /\ call.transport \in WithNames
         /\ ToLowerCase(call.transport) \in DOMAIN sender.transports )
       => \A u \in Emitted(call) :
             call.sends[u].via = ToLowerCase(call.transport)
    /\ (call.active /\ sinceWith >= 2) => call.transport \notin WithNames

\* the transport reported neither an error nor a rejected or pending
\* address for envelope u (what the stub transport does)
NoFailureReported(cs, u) ==
    /\ ~cs.sends[u].outcome.e.isError
    /\ cs.sends[u].outcome.info.rejected = <<>>
    /\ cs.sends[u].outcome.info.pending = <<>>

ResolvedSubject(cs, u) ==
    IF cs.subjectLit THEN LiteralSubject ELSE Rendered("subject", u, 3)

\* the string s followed by " (ref:" + x + ")"
WithRefSuffix(s, x) ==
    [dir |-> s.dir, item |-> s.item, arg |-> s.arg, suffix |-> <<" (ref:", x.dir, ")">>]

\* C12: when settings.ref is a non-empty string X, the subject of every
\* envelope handed to the transport is the resolved subject followed by
\* " (ref:X)".
C12_SubjectRefSuffix ==
    \A u \in Emitted(call) :
        (call.sends[u].status # "threw" /\ HasTruthy(call.sends[u].envelope, "ref")) =>
            call.sends[u].envelope["subject"] =
                WithRefSuffix(ResolvedSubject(call, u), call.sends[u].envelope["ref"])

\* the file name begins with '.', over the file names in use
IsHidden(filename) == filename \in {".hidden", ".secret"}

\* the attachment list an emitted envelope goes with: what the caller
\* set on the envelope and what assembleEmail resolved
AttachmentsOf(cs, u) ==
    Range(cs.attachments.list)
    \cup (IF "attachments" \in DOMAIN cs.sends[u].envelope
          THEN Range(cs.sends[u].envelope["attachments"].list) ELSE {})

\* C13: no attachment whose file name begins with '.' is in the resolved
\* attachment list of assembleEmail or among the attachments of an
\* envelope handed to the sender, whether it was listed in the
\* attachments directory or written by the caller in settings.attachments.
C13_NoHiddenAttachment ==
    /\ \A d \in Range(call.attachments.list) : ~IsHidden(d.filename)
    /\ \A u \in Emitted(call) : \A d \in AttachmentsOf(call, u) : ~IsHidden(d.filename)

\* the error kind the claim names for an empty data sequence
InvalidArgument == "InvalidArgument"

\* C14: a send called with an empty sequence of data items hands no
\* envelope to the sender, and once nothing of the call is outstanding
\* (no assembly operation having failed) the caller's callback has been
\* invoked, with an InvalidArgument error.
C14_EmptyDataRejected ==
    (call.active /\ call.n = 0) =>
        /\ Emitted(call) = {}
        /\ (Quiescent(call) /\ FailedErrors(call) = {}) =>
              /\ Len(call.cbCalls) >= 1
              /\ call.cbCalls[1].err = InvalidArgument

\* the addresses the transport named in the completions of a call
AddressesOf(cs) ==
    SetOfAll({cs.sends[u].outcome.info.accepted : u \in Completed(cs)})
    \cup SetOfAll({cs.sends[u].outcome.info.rejected : u \in Completed(cs)})
    \cup SetOfAll({cs.sends[u].outcome.info.pending : u \in Completed(cs)})

C16_BackendsReadOnly ==
    /\ DOMAIN sender.transports = DOMAIN EmailSender(options).transports
    /\ \A k \in DOMAIN sender.transports :
          sender.transports[k] = EmailSender(options).transports[k]

\* C17: a with(protocol, transport) call on the initialised facade
\* returns the interface, with the transport pinned on it, when the
\* protocol is configured; otherwise it returns undefined, does not
\* throw and leaves the pinned transport as it was.
C17_FacadeWith ==
    [][ (facade'.last # facade.last /\ facade.initialised) =>
          IF facade'.last.protocol \in facade.protocols
          THEN /\ facade'.last.result = "interface"
               /\ transport' = facade'.last.transport
          ELSE /\ facade'.last.result = Undefined
               /\ transport' = transport
      ]_vars

\* C18: every envelope assembleEmail has emitted was emitted with its
\* html and its subject present and with the attachment list resolved
\* (so never before the attachment discovery has finished), its entry
\* has left the accumulator, and it was emitted once.
C18_EnvelopeComplete ==
    \A u \in Emitted(call) :
        /\ HasTruthy(call.sends[u].contents, "html")
        /\ HasTruthy(call.sends[u].contents, "subject")
        /\ ~call.attachments.isFalse
        /\ call.attach = "listed"
        /\ u \notin DOMAIN call.accumulator
        /\ call.emissions[u] = 1

\* C18 witness: both envelopes of a two-item send have been emitted,
\* after the attachment list was resolved.
C18_Witness ==
    /\ call.n = 2
    /\ Emitted(call) = {0, 1}
    /\ call.attach = "listed"
    /\ \A u \in {0, 1} : call.emissions[u] = 1

\* the engine has reported an error for the content or the subject of an
\* item of the call: the item's accumulator entry holds an undefined
\* html or subject
RenderFailed(cs) ==
    \E u \in DOMAIN cs.accumulator :
        \/ ("html" \in DOMAIN cs.accumulator[u] /\ ~IsTruthy(cs.accumulator[u]["html"]))
        \/ ("subject" \in DOMAIN cs.accumulator[u] /\ ~IsTruthy(cs.accumulator[u]["subject"]))

\* C19: once the template engine has reported an error for the content
\* or the subject of one item, the caller's callback has been invoked
\* with that error as its first invocation, and from then on no further
\* envelope of the call is handed to the sender.
C19_RenderFailureAborts ==
    [][ (ncalls' = ncalls /\ RenderFailed(call')) =>
          /\ Len(call'.cbCalls) >= 1
          /\ call'.cbCalls[1].err = RenderError
          /\ RenderFailed(call) => Emitted(call') = Emitted(call)
      ]_vars

\* path.resolve(attachmentsDir, filename), over the file names in use
PathInAttachmentsDir(filename) ==
    CASE filename = "logo.png" -> "<attachmentsDir>/logo.png"
      [] filename = ".hidden" -> "<attachmentsDir>/.hidden"
      [] OTHER -> filename

\* the attachments the caller wrote in settings.attachments
SuppliedAttachments(cs) ==
    IF "attachments" \in DOMAIN cs.settings
    THEN Range(cs.settings["attachments"].list) ELSE {}

\* the descriptors the files listed in the attachments directory resolve to
ResolvedDiscovered(cs) ==
    { Descriptor(f, PathInAttachmentsDir(f), f) : f \in Range(cs.attachmentsFiles) }

Visible(descriptors) == { d \in descriptors : ~IsHidden(d.filename) }

\* C20: every envelope handed to the sender carries an attachments list
\* that holds, hidden files apart, the attachments the caller supplied in
\* settings.attachments and one descriptor {filename, path, cid} for each
\* file listed in the attachments directory of the type, with path =
\* <attachmentsDir>/<filename> and cid = filename.
C20_AttachmentsResolved ==
    \A u \in Emitted(call) :
        call.sends[u].status # "threw" =>
            /\ "attachments" \in DOMAIN call.sends[u].envelope
            /\ Visible(Range(call.sends[u].envelope["attachments"].list)) =
                  Visible(SuppliedAttachments(call) \cup ResolvedDiscovered(call))

\* the consumers created for the message that connection c is
\* transferring (its startData handler ran)
ConsumersOf(m) ==
    {j \in DOMAIN inbound.consumers : inbound.consumers[j].msg = m}

\* the calls of the server's completion callback for message m
CallbacksOf(c, m) ==
    {i \in DOMAIN inbound.conns[c].callbacks : inbound.conns[c].callbacks[i].msg = m}

\* C21: every consumer belongs to one message, no two to the same; it
\* holds the chunks of its own message only, each once and in arrival
\* order; while the message is in transfer it holds every chunk emitted
\* so far and is the connection's saveStream, also with messages of
\* several connections interleaved; at dataReady it is ended, once, and
\* then the server's callback is called, once, with a null error.
C21_InboundStreaming ==
    /\ \A j \in DOMAIN inbound.consumers :
          LET k == inbound.consumers[j]
              cn == inbound.conns[k.conn]
          IN  /\ ConsumersOf(k.msg) = {j}
              /\ \A i \in DOMAIN k.chunks : k.chunks[i] = Chunk(k.conn, k.msg, i)
              /\ IF cn.phase = "data" /\ cn.msg = k.msg
                 THEN /\ cn.saveStream = j
                      /\ Len(k.chunks) = cn.nchunks
                      /\ k.ends = 0
                      /\ CallbacksOf(k.conn, k.msg) = {}
                 ELSE /\ k.ends = 1
                      /\ Cardinality(CallbacksOf(k.conn, k.msg)) = 1
    /\ \A c \in Connections : \A i \in DOMAIN inbound.conns[c].callbacks :
          LET e == inbound.conns[c].callbacks[i]
          IN  /\ e.err = Null
              /\ e.endsBefore = 1
              /\ ConsumersOf(e.msg) = {e.consumer}
              /\ Len(inbound.consumers[e.consumer].chunks) = e.nchunks

\* C21 witness: connection 2 started a message first and has one chunk
\* written to its consumer; meanwhile connection 1 delivered a whole
\* message of two chunks to its own consumer, which was ended before
\* the callback.
C21_Witness ==
    /\ Len(inbound.consumers) = 2
    /\ inbound.consumers[1].conn = 2
    /\ inbound.conns[2].phase = "data"
    /\ Len(inbound.consumers[1].chunks) = 1
    /\ inbound.consumers[2].conn = 1
    /\ Len(inbound.consumers[2].chunks) = 2
    /\ inbound.consumers[2].ends = 1
    /\ Len(inbound.conns[1].callbacks) = 1

\* C22: a send call takes the transport pinned on the interface at the
\* moment it is invoked, keeps it whatever with() is called afterwards,
\* and hands every one of its envelopes to the sender under that name.
C22_TransportCaptured ==
    [][ /\ (ncalls' = ncalls + 1) => call'.transport = transport
        /\ (ncalls' = ncalls) => call'.transport = call.transport
        /\ \A u \in Emitted(call') : call'.sends[u].method = call'.transport
      ]_vars

\* C22 witness: with('*') was called after a two-item send pinned to
\* 'Stub' was invoked, and both envelopes went out through the stub.
C22_Witness ==
    /\ call.n = 2
    /\ call.transport = "Stub"
    /\ transport = "*"
    /\ sinceWith = 0
    /\ Emitted(call) = {0, 1}
    /\ \A u \in {0, 1} : call.sends[u].method = "Stub" /\ call.sends[u].via = "stub"

====
